---- MODULE Spec2Model ----
(***************************************************************************)
(* PyOpenWorm: the graph persistence engine of PyOpenWorm/command.py       *)
(* (_BatchAddGraph, POW._serialize_graphs, POW._load_all_graphs, POW.init) *)
(* and the directory loader of PyOpenWorm/datasource_loader.py             *)
(* (DataSourceDirLoader.__call__).                                         *)
(*                                                                         *)
(* Six specifications share the module:                                    *)
(*   SpecBatch   one _BatchAddGraph object driven through `with` scopes    *)
(*   Spec        serialization passes and bulk loads of one POW            *)
(*   SpecPasses  serialization passes of one POW whose store changes       *)
(*   SpecLoader  DataSourceDirLoader over a small file system              *)
(*   SpecInit    POW.init with its rollback                                *)
(*   SpecClone   POW.clone with its rollback                               *)
(* Each specification pins the variables of the others.                    *)
(***************************************************************************)
EXTENDS Integers, Sequences, FiniteSets, TLC

\* ------------------------------------------------------------------ bounds
\* Triples are opaque statements 1..MaxTriple; sorted(x) is their numeric order.
MaxTriple == 2
\* Largest batchsize a _BatchAddGraph is constructed with in SpecBatch.
MaxBatch == 3
\* Most add() calls inside one `with` scope in SpecBatch.
MaxAdds == 3
\* Most `with` scopes entered on one _BatchAddGraph object in SpecBatch.
MaxScopes == 2
\* The batchsize _load_all_graphs gives its _BatchAddGraph: the program's 4000
\* scaled down so that a file of MaxTriple triples is flushed part-way.
LoadBatchSize == 1
\* Most changes other tooling makes to the graphs directory after one pass.
MaxTamper == 1
\* Most directory entries (besides the root) of a SpecLoader file system, and
\* so the depth of its paths.
MaxEntries == 2
\* Most components of the path a loader returns.
MaxPathLen == 2
\* Most changes made to the store between the passes of SpecPasses.
MaxMutations == 2

Triples == 1..MaxTriple

\* ------------------------------------------------------------ seq helpers
Range(s) == {s[i] : i \in DOMAIN s}

RECURSIVE Flatten(_)
Flatten(ss) == IF ss = <<>> THEN <<>> ELSE Head(ss) \o Flatten(Tail(ss))

\* The last n elements of s removed.
DropLast(s, n) == SubSeq(s, 1, Len(s) - n)

VARIABLES
    graph,      \* the rdf store: context identifier -> set of triples
    bw,         \* the _BatchAddGraph object: graph, g, batchsize, batch, count
    bpc,        \* where its caller is: "new", "open" (inside `with`), "closed"
    bexc,       \* whether the last __exit__ was given an exception
    calls,      \* the addN calls made on the store since the current scope or load began
    added,      \* the triples passed to add() in the current scope, in order
    live,       \* the triples passed to add() in the current scope and not discarded
    scopes,     \* `with` scopes entered so far
    disk,       \* <powdir>/graphs: dir (exists), files, hasIndex, index
    repo,       \* the repository provider: dirty
    pc,         \* "idle", "serializing" (in _serialize_graphs), "loading"
    op,         \* the command running the serialization pass: "commit", "diff"
    ser,        \* _serialize_graphs' locals: todo (g.contexts() left), files, ctx_data
    ld,         \* _load_all_graphs' locals: pos (lines the loop has taken from
                \* index_file), cnt, total, triples_read, pre (the store at the
                \* call), reported, first (the lines of the counting pass), seen
                \* (the lines the loop has taken)
    err,        \* what the last command raised, "none" when it returned
    lastOp,     \* the last command that finished: "none", "serialize", "clone", "load"
    snap,       \* the store as it was when the latest serialization pass began
    passStatus, \* of the latest pass: "none", "running", "ok", "raised" (by the
                \* naming loop), "failed" (by a write)
    tampered,   \* changes other tooling made to the graphs directory since that pass
    rlog,       \* what the latest run of commit or diff called on the repository
                \* provider and did to the graphs directory, in order; emptied
                \* when anything else comes to the working directory
    wasDirty,   \* repo.is_dirty as that run found it
    prev,       \* the pass before the latest, when it serialized the store the
                \* latest did: its status and the graphs directory it left
    muts,       \* changes made to the store between passes so far
    fsys,       \* SpecLoader's file system: dirs, regular (files), link (at, to)
    loader,     \* the DataSourceDirLoader: whether base_directory is set, and to what
    lreq,       \* the string load() returned in the last __call__
    lres,       \* the outcome of the last __call__: returned path or LoadFailed reason
    pow,        \* SpecInit's and SpecClone's POW: its attributes and what is on disk
    ipc,        \* where init or clone is: "idle", one of their steps, "returned", "raised"
    ierr,       \* what init or clone raised to its caller, "none" when nothing
    ilog,       \* the steps init or clone has begun, in order
    cfg0        \* the config file as it was when init or clone was called

bvars == <<bw, bpc, bexc, added, live, scopes>>
hvars == <<rlog, wasDirty, prev, muts>>
pvars == <<disk, repo, pc, op, ser, ld, err, lastOp, snap, passStatus, tampered, hvars>>
lvars == <<fsys, loader, lreq, lres>>
ivars == <<pow, ipc, ierr, ilog, cfg0>>

\* ------------------------------------------------------------ the store
\* A store without contexts.
EmptyStore == [c \in {} |-> {}]

\* The triples of context c; a context the store does not hold has none.
TriplesIn(store, c) == IF c \in DOMAIN store THEN store[c] ELSE {}

\* Graph.addN(quads): every quad's triple is added to the quad's context; a
\* context comes into being with the first triple inserted into it, so
\* addN([]) creates nothing.
addN(store, quads) ==
    LET touched == {q[2] : q \in Range(quads)}
    IN  [c \in DOMAIN store \cup touched |->
            TriplesIn(store, c) \cup {q[1] : q \in {r \in Range(quads) : r[2] = c}}]

\* ------------------------------------------------------- _BatchAddGraph
\* reset(): an empty batch and a zero count.
reset(w) == [w EXCEPT !.batch = <<>>, !.count = 0]

\* __init__(graph, batchsize): self.g is the one-tuple (graph,).
BatchAddGraph(g, batchsize) ==
    reset([graph |-> g, g |-> <<g>>, batchsize |-> batchsize, batch |-> <<>>, count |-> 0])

\* Mutant: the batch is handed over one triple late.
AddFlushesLate(w) == w.count > 0 /\ w.count % (w.batchsize + 1) = 0

\* add(): the condition under which the batch is handed to addN first.
AddFlushes(w) == w.count > 0 /\ w.count % w.batchsize = 0

\* add(): the addN calls it makes (none, or one carrying the batch).
AddCalls(w) == IF AddFlushes(w) THEN <<w.batch>> ELSE <<>>

\* add(triple): the object afterwards; triple + self.g is the quad.
add(w, triple) ==
    [w EXCEPT !.batch = (IF AddFlushes(w) THEN <<>> ELSE @) \o <<<<triple>> \o w.g>>,
              !.count = @ + 1]

\* Mutant: __exit__ never flushes.
ExitCallsNever(w, exc) == <<>>

\* Mutant: __exit__ flushes whether or not an exception is passed.
ExitCallsAlways(w, exc) == <<w.batch>>

\* __exit__(*exc): the addN calls it makes.
ExitCalls(w, exc) == IF exc THEN <<>> ELSE <<w.batch>>

\* The store after a sequence of addN calls.
RECURSIVE ApplyCalls(_, _)
ApplyCalls(store, cs) ==
    IF cs = <<>> THEN store ELSE ApplyCalls(addN(store, Head(cs)), Tail(cs))

\* The context a SpecBatch writer targets.
BatchTarget == <<"a">>

\* __enter__: reset() and return self.
BatchEnter ==
    /\ bpc \in {"new", "closed"}
    /\ scopes < MaxScopes
    /\ bw' = reset(bw)
    /\ bpc' = "open"
    /\ scopes' = scopes + 1
    /\ added' = <<>>
    /\ live' = <<>>
    /\ calls' = <<>>
    /\ UNCHANGED <<pvars, lvars, ivars, graph, bexc>>

\* add(triple) inside the scope.
BatchAdd(t) ==
    /\ bpc = "open"
    /\ Len(added) < MaxAdds
    /\ bw' = add(bw, t)
    /\ calls' = calls \o AddCalls(bw)
    /\ graph' = ApplyCalls(graph, AddCalls(bw))
    /\ added' = Append(added, t)
    /\ live' = Append(live, t)
    /\ UNCHANGED <<pvars, lvars, ivars, bpc, bexc, scopes>>

\* __exit__(None, None, None): the scope ends normally.
BatchExitNormal ==
    /\ bpc = "open"
    /\ calls' = calls \o ExitCalls(bw, FALSE)
    /\ graph' = ApplyCalls(graph, ExitCalls(bw, FALSE))
    /\ bpc' = "closed"
    /\ bexc' = FALSE
    /\ UNCHANGED <<pvars, lvars, ivars, bw, added, live, scopes>>

\* __exit__(type, value, tb): the scope ends because its body raised.
BatchExitError ==
    /\ bpc = "open"
    /\ calls' = calls \o ExitCalls(bw, TRUE)
    /\ graph' = ApplyCalls(graph, ExitCalls(bw, TRUE))
    /\ bpc' = "closed"
    /\ bexc' = TRUE
    /\ live' = DropLast(live, Len(bw.batch))
    /\ UNCHANGED <<pvars, lvars, ivars, bw, added, scopes>>

BatchNext ==
    \/ BatchEnter
    \/ \E t \in Triples : BatchAdd(t)
    \/ BatchExitNormal
    \/ BatchExitError


\* ---------------------------------------------------- the working directory
\* Context identifiers, as their words (an identifier may hold spaces), in
\* string order.
IdentOrder == << <<"a">>, <<"c">>, <<"d", "e">> >>
Idents == Range(IdentOrder)
IdentRank(ident) == CHOOSE i \in DOMAIN IdentOrder : IdentOrder[i] = ident

\* hashlib.sha256(ident.encode()).hexdigest(), over a digest space small enough
\* for two identifiers to share a digest; digests compare as their hex strings.
hexdigest(ident) ==
    CASE ident = <<"a">> -> 1
      [] ident = <<"c">> -> 2
      [] ident = <<"d", "e">> -> 1

\* A file of the graphs directory: hs + '.nt' is <<hs, 0>>, and
\* hs + '-' + str(i) + '.nt' would be <<hs, i>>.
BaseName(hs) == <<hs, 0>>

\* String order of two file names: '-' sorts before '.', so a suffixed name
\* precedes the unsuffixed name of the same digest.
FnameLess(f, g) ==
    \/ f[1] < g[1]
    \/ f[1] = g[1] /\ f[2] # 0 /\ (g[2] = 0 \/ f[2] < g[2])

\* Order of the (file name, identifier) tuples of ctx_data.
LineLess(l, m) ==
    \/ FnameLess(l.fname, m.fname)
    \/ l.fname = m.fname /\ IdentRank(l.words) < IdentRank(m.words)

\* sorted(ctx_data)
RECURSIVE SortLines(_)
SortLines(S) ==
    IF S = {} THEN <<>>
    ELSE LET m == CHOOSE x \in S : \A y \in S \ {x} : LineLess(x, y)
         IN  <<m>> \o SortLines(S \ {m})

\* sorted(x): the triples of a context in their order.
RECURSIVE SortedTriples(_)
SortedTriples(S) ==
    IF S = {} THEN <<>>
    ELSE LET m == CHOOSE x \in S : \A y \in S : x <= y
         IN  <<m>> \o SortedTriples(S \ {m})

\* The 'nt' serializer over sorted(x): one line per triple.
NTSerialize(S) == SortedTriples(S)

\* A line of a triple file that is no well-formed triple.
Garbage == MaxTriple + 1

\* print(*l, file=index_file): the file name, a space, the identifier.
IndexLine(fname, ident) == [fname |-> fname, words |-> ident]

\* l.strip().split(' '): the fields of an index line.
SplitFields(l) == 1 + Len(l.words)

NoFiles == [f \in {} |-> <<>>]
NoGraphsDir == [dir |-> FALSE, files |-> NoFiles, hasIndex |-> FALSE, index |-> <<>>]

\* exists(fname) for a file of the graphs directory.
exists(d, fname) == fname \in DOMAIN d.files

\* open(fname, 'wb') and serializer.serialize(gfile): the file holds the lines.
WriteFile(d, fname, lines) ==
    [d EXCEPT !.files = [f \in DOMAIN d.files \cup {fname} |->
                            IF f = fname THEN lines ELSE d.files[f]]]

Stores == UNION {[S -> SUBSET Triples] : S \in SUBSET Idents}

\* The locals of the two procedures while neither runs.
NoSer == [todo |-> {}, files |-> <<>>, ctx_data |-> <<>>]
NoLoad == [pos |-> 0, cnt |-> 0, total |-> 0, triples_read |-> 0,
           pre |-> EmptyStore, reported |-> -1, first |-> <<>>, seen |-> <<>>]

\* No pass has run yet.
NoPrev == [status |-> "none", disk |-> NoGraphsDir]

PersistIdle ==
    /\ rlog = <<>>
    /\ wasDirty = FALSE
    /\ prev = NoPrev
    /\ muts = 0
    /\ disk = NoGraphsDir
    /\ repo = [dirty |-> FALSE]
    /\ pc = "idle"
    /\ op = "none"
    /\ ser = NoSer
    /\ ld = NoLoad
    /\ err = "none"
    /\ lastOp = "none"
    /\ snap = EmptyStore
    /\ passStatus = "none"
    /\ tampered = 0

BatchIdle ==
    /\ bw = BatchAddGraph(BatchTarget, LoadBatchSize)
    /\ bpc = "new"
    /\ bexc = FALSE
    /\ added = <<>>
    /\ live = <<>>
    /\ scopes = 0

\* SpecLoader's variables where no loader is modelled.
LoaderPinned ==
    /\ fsys = [dirs |-> {<<>>}, regular |-> {}, link |-> {}]
    /\ loader = [set |-> FALSE, base |-> <<>>]
    /\ lreq = [abs |-> FALSE, comps |-> <<>>]
    /\ lres = [kind |-> "none", reason |-> "", path |-> <<>>]

\* SpecInit's variables where init is not modelled.
InitPinned ==
    /\ pow = [powdir |-> TRUE]
    /\ ipc = "idle"
    /\ ierr = "none"
    /\ ilog = <<>>
    /\ cfg0 = [exists |-> FALSE, store_conf |-> "none"]

\* A POW over an opened store and a working directory not yet serialized to.
Init ==
    /\ graph \in Stores
    /\ calls = <<>>
    /\ PersistIdle
    /\ BatchIdle
    /\ LoaderPinned
    /\ InitPinned

\* ------------------------------------------------- the repository provider
\* repo.reset(): uncommitted changes are discarded.
RepoReset(r) == [r EXCEPT !.dirty = FALSE]
\* repo.remove(paths, recursive=True): the removal is staged.
RepoRemove(r) == [r EXCEPT !.dirty = TRUE]
\* repo.add(paths): the files are staged.
RepoAdd(r) == [r EXCEPT !.dirty = TRUE]
\* repo.commit(message): what is staged is committed.
RepoCommit(r) == [r EXCEPT !.dirty = FALSE]

\* One entry of rlog: what was called, and on which paths.
Did(call, paths) == [call |-> call, paths |-> paths]

\* The paths a pass handles besides the context files, named apart from every
\* digest: graphs/index, the config file, and the graphs directory.
IndexFile == <<0, 0>>
ConfigFile == <<0, 1>>
GraphsDir == <<0, 2>>

\* The repository after the calls of cs that are made on the provider.
RepoApply(r, c) ==
    CASE c.call = "reset" -> RepoReset(r)
      [] c.call = "remove" -> RepoRemove(r)
      [] c.call = "add" -> RepoAdd(r)
      [] c.call = "commit" -> RepoCommit(r)
      [] OTHER -> r

RECURSIVE RepoRun(_, _)
RepoRun(r, cs) == IF cs = <<>> THEN r ELSE RepoRun(RepoApply(r, Head(cs)), Tail(cs))

\* ------------------------------------------------------ _serialize_graphs
\* Mutant: the base name is used without looking for an existing file.
FreeNameUnchecked(d, hs) == [raised |-> FALSE, fname |-> BaseName(hs)]

\* Lines 478-482: the name for digest hs. The base name when no file has it;
\* otherwise the loop body concatenates str and int, which raises TypeError.
FreeName(d, hs) ==
    IF exists(d, BaseName(hs))
    THEN [raised |-> TRUE, fname |-> BaseName(hs)]
    ELSE [raised |-> FALSE, fname |-> BaseName(hs)]

\* What rmtree(graphs_base) removes: the directory, its files and its index.
Removed(d) ==
    {GraphsDir} \cup DOMAIN d.files \cup (IF d.hasIndex THEN {IndexFile} ELSE {})

\* Mutant: a dirty repository is not reset.
BeginCallsWithoutReset(r, d) ==
    (IF d.dir THEN <<Did("remove", {GraphsDir}), Did("rmtree", Removed(d))>> ELSE <<>>)
        \o <<Did("mkdir", {GraphsDir})>>

\* Lines 465-472: repo.reset() when the repository is dirty; repo.remove and
\* rmtree when the graphs directory exists; mkdir.
BeginCalls(r, d) ==
    (IF r.dirty THEN <<Did("reset", {})>> ELSE <<>>)
        \o (IF d.dir THEN <<Did("remove", {GraphsDir}), Did("rmtree", Removed(d))>> ELSE <<>>)
        \o <<Did("mkdir", {GraphsDir})>>

\* Mutant: the graphs directory is kept, only its index is dropped.
RemakeGraphsDirKeeping(d) == [d EXCEPT !.dir = TRUE, !.hasIndex = FALSE, !.index = <<>>]

\* Lines 468-472: the graphs directory after rmtree (when it was there) and
\* mkdir: it exists and is empty.
RemakeGraphsDir(d) == [NoGraphsDir EXCEPT !.dir = TRUE]

\* Mutant: commit calls repo.commit whether or not the pass raised.
CommitCallsAlways(o, raised) == IF o = "commit" THEN <<Did("commit", {})>> ELSE <<>>

\* Lines 453-454: commit calls repo.commit after _serialize_graphs returned;
\* an exception from the pass leaves commit before it. diff does not commit.
CommitCalls(o, raised) ==
    IF o = "commit" /\ ~raised THEN <<Did("commit", {})>> ELSE <<>>

\* Lines 459-474, entered from commit or diff: reset a dirty repository, remove
\* the graphs directory, make it anew, and start iterating g.contexts().
SerializeStart(o) ==
    /\ pc = "idle"
    /\ pc' = "serializing"
    /\ op' = o
    /\ wasDirty' = repo.dirty
    /\ rlog' = BeginCalls(repo, disk)
    /\ repo' = RepoRun(repo, BeginCalls(repo, disk))
    /\ disk' = RemakeGraphsDir(disk)
    /\ ser' = [todo |-> DOMAIN graph, files |-> <<>>, ctx_data |-> <<>>]
    /\ snap' = graph
    /\ passStatus' = "running"
    /\ tampered' = 0
    /\ err' = "none"
    /\ ld' = NoLoad
    /\ calls' = <<>>
    /\ UNCHANGED <<graph, bvars, lvars, ivars, lastOp, muts>>

\* A pass begins.
SerializeBegin(o) ==
    /\ SerializeStart(o)
    /\ UNCHANGED prev

\* A pass begins, and what the pass before it left is kept for comparison
\* when the store has not changed since.
SerializeAgain(o) ==
    /\ SerializeStart(o)
    /\ prev' = IF passStatus # "none" /\ snap = graph
               THEN [status |-> passStatus, disk |-> disk]
               ELSE NoPrev

\* Lines 475-487, one iteration that finds a free name: the context's sorted
\* triples are written under it and (file name, identifier) is recorded.
SerializeCtx(x) ==
    /\ pc = "serializing"
    /\ x \in ser.todo
    /\ LET n == FreeName(disk, hexdigest(x))
       IN  /\ ~n.raised
           /\ disk' = WriteFile(disk, n.fname, NTSerialize(graph[x]))
           /\ ser' = [todo |-> ser.todo \ {x},
                      files |-> Append(ser.files, n.fname),
                      ctx_data |-> Append(ser.ctx_data, IndexLine(n.fname, x))]
           /\ rlog' = Append(rlog, Did("write", {n.fname}))
    /\ UNCHANGED <<graph, calls, bvars, lvars, ivars, repo, pc, op, ld, err, lastOp, snap,
                   passStatus, tampered, wasDirty, prev, muts>>

\* Lines 475-482, one iteration whose base name is taken: the TypeError leaves
\* _serialize_graphs (and commit, before repo.commit).
SerializeCtxRaise(x) ==
    /\ pc = "serializing"
    /\ x \in ser.todo
    /\ FreeName(disk, hexdigest(x)).raised
    /\ pc' = "idle"
    /\ err' = "TypeError"
    /\ lastOp' = "serialize"
    /\ passStatus' = "raised"
    /\ ser' = NoSer
    /\ rlog' = rlog \o CommitCalls(op, TRUE)
    /\ repo' = RepoRun(repo, CommitCalls(op, TRUE))
    /\ UNCHANGED <<graph, calls, bvars, lvars, ivars, disk, op, ld, snap, tampered,
                   wasDirty, prev, muts>>

\* Lines 484-486, one iteration whose write fails after k lines (the disk is
\* full, say): open(fname, 'wb') has made the file under its final name, and
\* the error leaves _serialize_graphs with the file as far as it was written.
SerializeCtxWriteFails(x, k) ==
    /\ pc = "serializing"
    /\ x \in ser.todo
    /\ k < Len(NTSerialize(graph[x]))
    /\ LET n == FreeName(disk, hexdigest(x))
       IN  /\ ~n.raised
           /\ disk' = WriteFile(disk, n.fname, SubSeq(NTSerialize(graph[x]), 1, k))
           /\ rlog' = Append(rlog, Did("write", {n.fname})) \o CommitCalls(op, TRUE)
    /\ repo' = RepoRun(repo, CommitCalls(op, TRUE))
    /\ pc' = "idle"
    /\ err' = "IOError"
    /\ lastOp' = "serialize"
    /\ passStatus' = "failed"
    /\ ser' = NoSer
    /\ UNCHANGED <<graph, calls, bvars, lvars, ivars, op, ld, snap, tampered,
                   wasDirty, prev, muts>>

\* Lines 489-496 after the last context: the index is written sorted, the files
\* are staged, and commit goes on to repo.commit.
SerializeIndex ==
    /\ pc = "serializing"
    /\ ser.todo = {}
    /\ disk' = [disk EXCEPT !.hasIndex = TRUE, !.index = SortLines(Range(ser.ctx_data))]
    /\ LET cs == <<Did("add", Range(ser.files) \cup {IndexFile, ConfigFile, GraphsDir})>>
                     \o CommitCalls(op, FALSE)
       IN  /\ repo' = RepoRun(repo, cs)
           /\ rlog' = rlog \o <<Did("index", {IndexFile})>> \o cs
    /\ pc' = "idle"
    /\ lastOp' = "serialize"
    /\ passStatus' = "ok"
    /\ ser' = NoSer
    /\ UNCHANGED <<graph, calls, bvars, lvars, ivars, op, ld, err, snap, tampered,
                   wasDirty, prev, muts>>

\* ------------------------------------------------------- store mutations
\* The quads of a fetched graph: the triples of S in context x.
QuadsOf(x, S) == [i \in 1..Cardinality(S) |-> <<SortedTriples(S)[i], x>>]

\* add_graph, lines 275-278: the quads of the fetched graph are added to the
\* store.
AddGraph(x, S) ==
    /\ pc = "idle"
    /\ muts < MaxMutations
    /\ S # {}
    /\ graph' = addN(graph, QuadsOf(x, S))
    /\ muts' = muts + 1
    /\ UNCHANGED <<calls, bvars, lvars, ivars, disk, repo, pc, op, ser, ld, err, lastOp, snap,
                   passStatus, tampered, rlog, wasDirty, prev>>

\* A context is removed from the store (by a translator or a manual edit).
RemoveContext(x) ==
    /\ pc = "idle"
    /\ muts < MaxMutations
    /\ x \in DOMAIN graph
    /\ graph' = [c \in DOMAIN graph \ {x} |-> graph[c]]
    /\ muts' = muts + 1
    /\ UNCHANGED <<calls, bvars, lvars, ivars, disk, repo, pc, op, ser, ld, err, lastOp, snap,
                   passStatus, tampered, rlog, wasDirty, prev>>

PassesNext ==
    \/ \E o \in {"commit", "diff"} : SerializeAgain(o)
    \/ \E x \in Idents : SerializeCtx(x)
    \/ \E x \in Idents : SerializeCtxRaise(x)
    \/ \E x \in Idents : \E k \in 0..MaxTriple : SerializeCtxWriteFails(x, k)
    \/ SerializeIndex
    \/ \E x \in Idents : \E S \in SUBSET Triples : AddGraph(x, S)
    \/ \E x \in Idents : RemoveContext(x)

\* ------------------------------------------------------- _load_all_graphs
\* parser.parse(create_input_source(f), g): every line's triple goes to g.add
\* until a line does not parse. w is the writer, out the addN calls so far.
RECURSIVE ParseInto(_, _, _)
ParseInto(lines, w, out) ==
    IF lines = <<>> THEN [ok |-> TRUE, w |-> w, calls |-> out]
    ELSE IF Head(lines) \notin Triples THEN [ok |-> FALSE, w |-> w, calls |-> out]
    ELSE ParseInto(Tail(lines), add(w, Head(lines)), out \o AddCalls(w))

\* Mutant: the transaction is opened inside the loop, once per index line.
TxnPerLine == FALSE

\* The scope the transaction of line 344 covers: TRUE for the whole loop.
TxnCoversLoop == TRUE

\* transaction.manager leaving on an exception: the store as it was when the
\* transaction began. pre is the store at line 344, cur the store at the
\* start of the failing iteration (where a transaction inside the loop would
\* have begun).
Abort(pre, cur) == IF TxnCoversLoop THEN pre ELSE cur

\* Lines 346-350 for one index line l against directory d: what is raised,
\* the addN calls made, and g.count.
LoadOne(d, l) ==
    IF SplitFields(l) # 2
    THEN [raised |-> "ValueError", calls |-> <<>>, count |-> 0]
    ELSE IF ~exists(d, l.fname)
    THEN [raised |-> "IOError", calls |-> <<>>, count |-> 0]
    ELSE LET w0 == reset(BatchAddGraph(l.words, LoadBatchSize))
             r == ParseInto(d.files[l.fname], w0, <<>>)
         IN  [raised |-> IF r.ok THEN "none" ELSE "ParseError",
              calls |-> r.calls \o ExitCalls(r.w, ~r.ok),
              count |-> r.w.count]

\* Mutant: the exists() test is left out.
IndexAssumed(d) == TRUE

\* Line 336: whether the index file is there.
IndexExists(d) == d.hasIndex

\* Lines 334-336 and 355 when there is no index file: nothing is read.
LoadNoIndex ==
    /\ pc = "idle"
    /\ ~IndexExists(disk)
    /\ ld' = [NoLoad EXCEPT !.pre = graph, !.reported = 0]
    /\ calls' = <<>>
    /\ err' = "none"
    /\ lastOp' = "load"
    /\ rlog' = <<>>
    /\ wasDirty' = FALSE
    /\ UNCHANGED <<prev, muts, graph, bvars, lvars, ivars, disk, repo, pc, op, ser, snap, passStatus, tampered>>

\* `for l in index_file` at line 345: the lines the open file yields from the
\* position the loop has reached. The file is read as the loop goes, so they
\* are the lines the file holds now.
Unread(d, l) == SubSeq(d.index, l.pos + 1, Len(d.index))

\* Lines 337-344 once exists(idx_fname) held: open(idx_fname) raises when the
\* file is not there; otherwise the lines are counted, the file is rewound,
\* the total is given to the progress sink and the transaction begins.
LoadBegin ==
    /\ pc = "idle"
    /\ IndexExists(disk)
    /\ calls' = <<>>
    /\ IF disk.hasIndex
       THEN /\ ld' = [NoLoad EXCEPT !.cnt = Len(disk.index),
                                     !.total = Len(disk.index),
                                     !.pre = graph,
                                     !.first = disk.index]
            /\ err' = "none"
            /\ pc' = "loading"
            /\ UNCHANGED lastOp
       ELSE /\ ld' = [NoLoad EXCEPT !.pre = graph]
            /\ err' = "IOError"
            /\ lastOp' = "load"
            /\ UNCHANGED pc
    /\ rlog' = <<>>
    /\ wasDirty' = FALSE
    /\ UNCHANGED <<prev, muts, graph, bvars, lvars, ivars, disk, repo, op, ser, snap, passStatus, tampered>>

\* Lines 345-353, one iteration that raises nothing.
LoadEntry ==
    /\ pc = "loading"
    /\ Unread(disk, ld) # <<>>
    /\ LET l == Head(Unread(disk, ld))
           r == LoadOne(disk, l)
       IN  /\ r.raised = "none"
           /\ graph' = ApplyCalls(graph, r.calls)
           /\ calls' = calls \o r.calls
           /\ ld' = [ld EXCEPT !.pos = @ + 1, !.seen = Append(@, l),
                               !.triples_read = @ + r.count]
    /\ UNCHANGED <<hvars, bvars, lvars, ivars, disk, repo, pc, op, ser, err, lastOp, snap, passStatus, tampered>>

\* Lines 345-350, one iteration that raises: the exception leaves the
\* _BatchAddGraph scope, then the transaction, then _load_all_graphs.
LoadEntryRaise ==
    /\ pc = "loading"
    /\ Unread(disk, ld) # <<>>
    /\ LET l == Head(Unread(disk, ld))
           r == LoadOne(disk, l)
       IN  /\ r.raised # "none"
           /\ graph' = Abort(ld.pre, graph)
           /\ calls' = calls \o r.calls
           /\ err' = r.raised
           /\ ld' = [ld EXCEPT !.pos = @ + 1, !.seen = Append(@, l)]
    /\ pc' = "idle"
    /\ lastOp' = "load"
    /\ UNCHANGED <<hvars, bvars, lvars, ivars, disk, repo, op, ser, snap, passStatus, tampered>>

\* Lines 354-355 after the last line: the transaction commits and the count
\* is reported.
LoadFinish ==
    /\ pc = "loading"
    /\ Unread(disk, ld) = <<>>
    /\ ld' = [ld EXCEPT !.reported = ld.triples_read]
    /\ pc' = "idle"
    /\ lastOp' = "load"
    /\ UNCHANGED <<hvars, graph, calls, bvars, lvars, ivars, disk, repo, op, ser, err, snap, passStatus, tampered>>

\* ------------------------------------------------------------ environment
\* clone, lines 317-320: the store of a fresh working directory, opened empty
\* over the graphs directory the repository holds.
CloneInitStore ==
    /\ pc = "idle"
    /\ graph # EmptyStore
    /\ graph' = EmptyStore
    /\ lastOp' = "clone"
    /\ rlog' = <<>>
    /\ wasDirty' = FALSE
    /\ UNCHANGED <<prev, muts, calls, bvars, lvars, ivars, disk, repo, pc, op, ser, ld, err, snap, passStatus,
                   tampered>>

\* The repository delivers the graphs directory without one of its files.
FetchWithoutFile(f) ==
    /\ pc = "idle"
    /\ lastOp \in {"serialize", "clone"}
    /\ tampered < MaxTamper
    /\ exists(disk, f)
    /\ disk' = [disk EXCEPT !.files = [g \in DOMAIN disk.files \ {f} |-> disk.files[g]]]
    /\ tampered' = tampered + 1
    /\ repo' = [repo EXCEPT !.dirty = TRUE]
    /\ rlog' = <<>>
    /\ wasDirty' = FALSE
    /\ UNCHANGED <<prev, muts, graph, calls, bvars, lvars, ivars, pc, op, ser, ld, err, lastOp, snap, passStatus>>

\* The repository delivers a triple file with a malformed line after k lines.
FetchMalformedFile(f, k) ==
    /\ pc = "idle"
    /\ lastOp \in {"serialize", "clone"}
    /\ tampered < MaxTamper
    /\ exists(disk, f)
    /\ k <= Len(disk.files[f])
    /\ disk' = [disk EXCEPT !.files[f] =
                    SubSeq(@, 1, k) \o <<Garbage>> \o SubSeq(@, k + 1, Len(@))]
    /\ tampered' = tampered + 1
    /\ repo' = [repo EXCEPT !.dirty = TRUE]
    /\ rlog' = <<>>
    /\ wasDirty' = FALSE
    /\ UNCHANGED <<prev, muts, graph, calls, bvars, lvars, ivars, pc, op, ser, ld, err, lastOp, snap, passStatus>>

\* The repository delivers an index with a line that lacks the separator:
\* line i holds a file name and nothing else.
FetchIndexLineWithoutSeparator(i) ==
    /\ pc = "idle"
    /\ lastOp \in {"serialize", "clone"}
    /\ tampered < MaxTamper
    /\ disk.hasIndex
    /\ i \in DOMAIN disk.index
    /\ disk.index[i].words # <<>>
    /\ disk' = [disk EXCEPT !.index[i].words = <<>>]
    /\ tampered' = tampered + 1
    /\ repo' = [repo EXCEPT !.dirty = TRUE]
    /\ rlog' = <<>>
    /\ wasDirty' = FALSE
    /\ UNCHANGED <<prev, muts, graph, calls, bvars, lvars, ivars, pc, op, ser, ld, err, lastOp, snap, passStatus>>

\* The index without its line i.
WithoutLine(idx, i) == SubSeq(idx, 1, i - 1) \o SubSeq(idx, i + 1, Len(idx))

\* Other tooling rewrites the index file in place, without its line i, while
\* _load_all_graphs holds it open (between line 338 and the end of the loop).
RewriteIndexDuringLoad(i) ==
    /\ pc = "loading"
    /\ tampered < MaxTamper
    /\ i \in DOMAIN disk.index
    /\ disk' = [disk EXCEPT !.index = WithoutLine(@, i)]
    /\ tampered' = tampered + 1
    /\ UNCHANGED <<hvars, graph, calls, bvars, lvars, ivars, repo, pc, op, ser, ld, err, lastOp, snap, passStatus>>

Next ==
    \/ \E o \in {"commit", "diff"} : SerializeBegin(o)
    \/ \E x \in Idents : SerializeCtx(x)
    \/ \E x \in Idents : SerializeCtxRaise(x)
    \/ SerializeIndex
    \/ LoadNoIndex
    \/ LoadBegin
    \/ LoadEntry
    \/ LoadEntryRaise
    \/ LoadFinish
    \/ CloneInitStore
    \/ \E f \in DOMAIN disk.files : FetchWithoutFile(f)
    \/ \E f \in DOMAIN disk.files : \E k \in 0..MaxTriple : FetchMalformedFile(f, k)
    \/ \E i \in 1..Cardinality(Idents) : FetchIndexLineWithoutSeparator(i)
    \/ \E i \in 1..Cardinality(Idents) : RewriteIndexDuringLoad(i)

\* ---------------------------------------------------- DataSourceDirLoader
\* A file name is the sequence of the pieces of its string, which makes "esc"
\* a string prefix of "escape".
Esc == <<"esc">>
Escape == <<"esc", "ape">>
DotDot == <<"..">>
Names == {Esc, Escape}

\* The sequences over S of length n or less.
RECURSIVE SeqsUpTo(_, _)
SeqsUpTo(S, n) ==
    IF n = 0 THEN {<<>>}
    ELSE LET r == SeqsUpTo(S, n - 1)
         IN  r \cup {Append(q, x) : q \in {t \in r : Len(t) = n - 1}, x \in S}

\* Canonical absolute paths, as their components; <<>> is the root.
Paths == SeqsUpTo(Names, MaxEntries)

Parent(path) == IF path = <<>> THEN <<>> ELSE SubSeq(path, 1, Len(path) - 1)

\* The string of a canonical absolute path: "/" for the root, otherwise a "/"
\* before every component.
RECURSIVE JoinComponents(_)
JoinComponents(path) ==
    IF path = <<>> THEN <<>>
    ELSE <<"/">> \o Head(path) \o JoinComponents(Tail(path))

PathStr(path) == IF path = <<>> THEN <<"/">> ELSE JoinComponents(path)

\* str.startswith
startswith(str, prefix) ==
    Len(prefix) <= Len(str) /\ SubSeq(str, 1, Len(prefix)) = prefix

\* The file systems of the model: up to MaxEntries entries, every entry's
\* parent a directory, regular files without children, and at most one
\* symbolic link, to a directory.
TreeSets ==
    {E \in SUBSET (Paths \ {<<>>}) :
        /\ Cardinality(E) <= MaxEntries
        /\ \A e \in E : Parent(e) = <<>> \/ Parent(e) \in E}

LeafSets(E) == {R \in SUBSET E : \A e \in E : Parent(e) \notin R}

LinksFor(E, R) ==
    {{}} \cup
    (IF Cardinality(E) >= MaxEntries THEN {}
     ELSE {{[at |-> a, to |-> t]} :
              a \in {q \in Paths \ ({<<>>} \cup E) :
                        Parent(q) = <<>> \/ Parent(q) \in E \ R},
              t \in (E \ R) \cup {<<>>}})

FileSystems ==
    UNION {UNION {{[dirs |-> (E \ R) \cup {<<>>}, regular |-> R, link |-> L] :
                      L \in LinksFor(E, R)} : R \in LeafSets(E)} : E \in TreeSets}

\* os.path.exists and os.path.isdir of a canonical path.
path_exists(fs, path) == path \in fs.dirs \cup fs.regular
isdir(fs, path) == path \in fs.dirs

\* os.path.realpath: ".." steps to the parent (the root is its own parent) and
\* a symbolic link is replaced by its target as soon as it is reached.
RECURSIVE Resolve(_, _, _)
Resolve(fs, cur, rest) ==
    IF rest = <<>> THEN cur
    ELSE IF Head(rest) = DotDot THEN Resolve(fs, Parent(cur), Tail(rest))
    ELSE LET nxt == Append(cur, Head(rest))
             hit == {l \in fs.link : l.at = nxt}
         IN  IF hit = {} THEN Resolve(fs, nxt, Tail(rest))
             ELSE Resolve(fs, (CHOOSE l \in hit : TRUE).to, Tail(rest))

realpath(fs, components) == Resolve(fs, <<>>, components)

\* What load() may return: "" (relative, no components), a relative path or
\* an absolute one.
LoaderResults == [abs : BOOLEAN, comps : SeqsUpTo(Names \cup {DotDot}, MaxPathLen)]

\* Line 54: `not s`.
IsEmptyString(str) == ~str.abs /\ str.comps = <<>>

LoadFailed(reason) == [kind |-> "LoadFailed", reason |-> reason, path |-> <<>>]
Returned(path) == [kind |-> "returned", reason |-> "", path |-> path]
NoOutcome == [kind |-> "none", reason |-> "", path |-> <<>>]

\* Line 66: the test that the real path lies in the base directory.
InBaseDirectory(rpath, base) == startswith(PathStr(rpath), PathStr(base))

\* __call__, lines 53-78, with s what load() returned.
Call(fs, l, str) ==
    IF IsEmptyString(str) THEN LoadFailed("empty")
    ELSE IF ~l.set THEN [kind |-> "AttributeError", reason |-> "", path |-> <<>>]
    ELSE LET joined == IF str.abs THEN str.comps ELSE l.base \o str.comps
             rpath == realpath(fs, joined)
         IN  IF ~InBaseDirectory(rpath, l.base) THEN LoadFailed("outside")
             ELSE IF ~path_exists(fs, rpath) THEN LoadFailed("nonexistent")
             ELSE IF ~isdir(fs, rpath) THEN LoadFailed("notdir")
             ELSE Returned(rpath)

\* A loader constructed without base_directory: the attribute is not set.
LoaderIdle ==
    /\ loader = [set |-> FALSE, base |-> <<>>]
    /\ lreq = [abs |-> FALSE, comps |-> <<>>]
    /\ lres = NoOutcome

\* __init__(base_directory), lines 30-32, with a directory (or a link to one).
DSNew(b) ==
    /\ b \in fsys.dirs \cup {l.at : l \in fsys.link}
    /\ loader' = [set |-> TRUE, base |-> realpath(fsys, b)]
    /\ lreq' = [abs |-> FALSE, comps |-> <<>>]
    /\ lres' = NoOutcome
    /\ UNCHANGED <<fsys, graph, calls, bvars, pvars, ivars>>

\* __call__(data_source) with load() returning str.
DSCall(str) ==
    /\ lreq' = str
    /\ lres' = Call(fsys, loader, str)
    /\ UNCHANGED <<fsys, loader, graph, calls, bvars, pvars, ivars>>

LoaderNext ==
    \/ \E b \in Paths : DSNew(b)
    \/ \E str \in LoaderResults : DSCall(str)

\* --------------------------------------------------------------- POW.init
\* The steps of init, in order.
InitSteps == <<"ensure", "config", "store", "repo">>

\* rdf.store_conf as _init_config_file and the update branch write it: the
\* store under the working directory ("in") unless store_name is an absolute
\* path outside it ("out").
StoreConf(p) == IF p.storeOutside THEN "out" ELSE "in"

NoConfig == [exists |-> FALSE, store_conf |-> "none"]

\* _ensure_powdir, lines 161-163.
EnsurePowdir(p) ==
    IF p.powdir THEN p
    ELSE [p EXCEPT !.powdir = TRUE, !.created = @ \cup {"powdir"}]

\* Mutant: an existing config file is pointed at store_name whatever
\* update_existing_config says.
ConfigStepUpdating(p) ==
    IF ~p.cfg.exists
    THEN [p EXCEPT !.cfg = [exists |-> TRUE, store_conf |-> StoreConf(p)],
                   !.created = @ \cup {"config"}]
    ELSE [p EXCEPT !.cfg.store_conf = StoreConf(p)]

\* Lines 210-218: the config file is created when missing, pointed at
\* store_name when update_existing_config, and left alone otherwise.
ConfigStep(p) ==
    IF ~p.cfg.exists
    THEN [p EXCEPT !.cfg = [exists |-> TRUE, store_conf |-> StoreConf(p)],
                   !.created = @ \cup {"config"}]
    ELSE IF p.update THEN [p EXCEPT !.cfg.store_conf = StoreConf(p)]
    ELSE p

\* Whether lines 210-218 do anything that can raise.
ConfigActs(p) == ~p.cfg.exists \/ p.update

\* _init_store (_conf), lines 286-298: the database is opened, and created
\* when missing, where the config file's rdf.store_conf says.
StoreStep(p) ==
    IF p.cfg.store_conf = "out"
    THEN IF p.storeOut THEN p
         ELSE [p EXCEPT !.storeOut = TRUE, !.created = @ \cup {"storeOut"}]
    ELSE IF p.storeIn THEN p
         ELSE [p EXCEPT !.storeIn = TRUE, !.created = @ \cup {"storeIn"}]

\* _init_repository, lines 242-244.
RepoStep(p) ==
    IF p.hasRepo /\ ~p.repoInit
    THEN [p EXCEPT !.repoInit = TRUE, !.created = @ \cup {"repo"}]
    ELSE p

StepEffect(step, p) ==
    CASE step = "ensure" -> EnsurePowdir(p)
      [] step = "config" -> ConfigStep(p)
      [] step = "store" -> StoreStep(p)
      [] step = "repo" -> RepoStep(p)

\* Whether the step can raise at all.
CanRaise(step, p) ==
    CASE step = "ensure" -> ~p.powdir
      [] step = "config" -> ConfigActs(p)
      [] step = "store" -> TRUE
      [] step = "repo" -> p.hasRepo

\* Mutant: the handler removes nothing.
RmTreeNothing(p) == p

\* shutil.rmtree(self.powdir): the directory and all under it are gone; a
\* config file or a store outside the directory is not under it.
RmTree(p) ==
    [p EXCEPT !.powdir = FALSE,
              !.cfg = IF p.cfgOutside THEN @ ELSE NoConfig,
              !.storeIn = FALSE,
              !.repoInit = FALSE]

\* Line 222: `except Exception` catches Exception and its subclasses, not a
\* bare BaseException (KeyboardInterrupt, SystemExit).
Caught(kind) == kind = "Exception"

\* The POW objects and disks init may be called on.
Pows ==
    {p \in [update : {FALSE}, cfgOutside : BOOLEAN, storeOutside : BOOLEAN,
            hasRepo : BOOLEAN, powdir : BOOLEAN,
            cfg : [exists : BOOLEAN, store_conf : {"none", "in", "out"}],
            storeIn : BOOLEAN, storeOut : BOOLEAN, repoInit : BOOLEAN,
            created : {{}}, stepErr : {"none"}, rmFailed : {FALSE}] :
        /\ p.cfg.exists <=> p.cfg.store_conf # "none"
        /\ (p.cfg.exists /\ ~p.cfgOutside) => p.powdir
        /\ p.storeIn => p.powdir
        /\ p.repoInit => (p.powdir /\ p.hasRepo)}

InitIdle ==
    /\ pow \in Pows
    /\ ipc = "idle"
    /\ ierr = "none"
    /\ ilog = <<>>
    /\ cfg0 = NoConfig

\* init(update_existing_config) is called.
InitCall(u) ==
    /\ ipc = "idle"
    /\ pow' = [pow EXCEPT !.update = u]
    /\ cfg0' = pow.cfg
    /\ ipc' = "ensure"
    /\ UNCHANGED <<ierr, ilog, graph, calls, bvars, pvars, lvars>>

\* One step of lines 209-221 that raises nothing; after the last, init returns.
InitStep ==
    /\ ipc \in Range(InitSteps)
    /\ pow' = StepEffect(ipc, pow)
    /\ ilog' = Append(ilog, ipc)
    /\ ipc' = CASE ipc = "ensure" -> "config"
                [] ipc = "config" -> "store"
                [] ipc = "store" -> "repo"
                [] ipc = "repo" -> "returned"
    /\ UNCHANGED <<ierr, cfg0, graph, calls, bvars, pvars, lvars>>

\* One step raises, having got as far as its effect (partial) or not. Lines
\* 222-224: an Exception is caught, _ensure_no_powdir (lines 226-228) removes
\* the working directory if it exists, which may itself fail (rmfails), and
\* the error is raised again.
InitRaise(kind, partial, rmfails) ==
    /\ ipc \in Range(InitSteps)
    /\ CanRaise(ipc, pow)
    /\ LET p1 == IF partial THEN StepEffect(ipc, pow) ELSE pow
           failed == Caught(kind) /\ p1.powdir /\ rmfails
           p2 == IF Caught(kind) /\ p1.powdir /\ ~rmfails THEN RmTree(p1) ELSE p1
       IN  /\ pow' = [p2 EXCEPT !.stepErr = kind, !.rmFailed = failed]
           /\ ierr' = IF failed THEN "OSError" ELSE kind
    /\ ilog' = Append(ilog, ipc)
    /\ ipc' = "raised"
    /\ UNCHANGED <<cfg0, graph, calls, bvars, pvars, lvars>>

InitNext ==
    \/ \E u \in BOOLEAN : InitCall(u)
    \/ InitStep
    \/ \E kind \in {"Exception", "BaseException"} : \E partial, rmfails \in BOOLEAN :
          InitRaise(kind, partial, rmfails)

\* -------------------------------------------------------------- POW.clone
\* The steps of clone, lines 314-324, in order.
CloneSteps == <<"makedirs", "fetch", "config", "store", "load">>

\* makedirs(self.powdir), line 314, where the directory is not there yet.
MakePowdir(p) == [p EXCEPT !.powdir = TRUE, !.created = @ \cup {"powdir"}]

\* repository_provider.clone(url, base=self.powdir), line 317: the
\* repository's files come under the working directory.
FetchStep(p) ==
    IF p.hasRepo /\ ~p.repoInit
    THEN [p EXCEPT !.repoInit = TRUE, !.created = @ \cup {"repo"}]
    ELSE p

\* Lines 318-319: the config file is created when missing; clone does not
\* look at update_existing_config.
CloneConfigStep(p) ==
    IF ~p.cfg.exists
    THEN [p EXCEPT !.cfg = [exists |-> TRUE, store_conf |-> StoreConf(p)],
                   !.created = @ \cup {"config"}]
    ELSE p

\* What a step of clone does when it raises nothing. _load_all_graphs fills
\* the store and leaves the working directory's files as they are.
CloneEffect(step, p) ==
    CASE step = "makedirs" -> MakePowdir(p)
      [] step = "fetch" -> FetchStep(p)
      [] step = "config" -> CloneConfigStep(p)
      [] step = "store" -> StoreStep(p)
      [] step = "load" -> p

\* makedirs raises FileExistsError when the directory is already there.
MustRaise(step, p) == step = "makedirs" /\ p.powdir

\* Mutant: clone catches Exception only, as init does.
CaughtByCloneAsInit(kind) == kind = "Exception"

\* Line 326: `except BaseException` catches whatever is raised.
CaughtByClone(kind) == TRUE

\* clone(url) is called.
CloneCall ==
    /\ ipc = "idle"
    /\ cfg0' = pow.cfg
    /\ ipc' = "makedirs"
    /\ UNCHANGED <<pow, ierr, ilog, graph, calls, bvars, pvars, lvars>>

\* One step of lines 314-324 that raises nothing; after the last, clone
\* returns.
CloneStep ==
    /\ ipc \in Range(CloneSteps)
    /\ ~MustRaise(ipc, pow)
    /\ pow' = CloneEffect(ipc, pow)
    /\ ilog' = Append(ilog, ipc)
    /\ ipc' = CASE ipc = "makedirs" -> "fetch"
                [] ipc = "fetch" -> "config"
                [] ipc = "config" -> "store"
                [] ipc = "store" -> "load"
                [] ipc = "load" -> "returned"
    /\ UNCHANGED <<ierr, cfg0, graph, calls, bvars, pvars, lvars>>

\* One step raises, having got as far as its effect (partial) or not. Lines
\* 326-328: whatever was raised is caught, _ensure_no_powdir (lines 226-228)
\* removes the working directory if it exists, which may itself fail
\* (rmfails), and the error is raised again.
CloneRaise(kind, partial, rmfails) ==
    /\ ipc \in Range(CloneSteps)
    /\ LET p1 == IF partial /\ ~MustRaise(ipc, pow) THEN CloneEffect(ipc, pow) ELSE pow
           failed == CaughtByClone(kind) /\ p1.powdir /\ rmfails
           p2 == IF CaughtByClone(kind) /\ p1.powdir /\ ~rmfails THEN RmTree(p1) ELSE p1
       IN  /\ pow' = [p2 EXCEPT !.stepErr = kind, !.rmFailed = failed]
           /\ ierr' = IF failed THEN "OSError" ELSE kind
    /\ ilog' = Append(ilog, ipc)
    /\ ipc' = "raised"
    /\ UNCHANGED <<cfg0, graph, calls, bvars, pvars, lvars>>

CloneNext ==
    \/ CloneCall
    \/ CloneStep
    \/ \E kind \in {"Exception", "BaseException"} : \E partial, rmfails \in BOOLEAN :
          CloneRaise(kind, partial, rmfails)

vars == <<graph, calls, bvars, pvars, lvars, ivars>>

\* One _BatchAddGraph object, newly constructed, and its target store.
BatchInit ==
    /\ graph = EmptyStore
    /\ \E b \in 1..MaxBatch : bw = BatchAddGraph(BatchTarget, b)
    /\ bpc = "new"
    /\ bexc = FALSE
    /\ calls = <<>>
    /\ added = <<>>
    /\ live = <<>>
    /\ scopes = 0
    /\ PersistIdle
    /\ LoaderPinned
    /\ InitPinned

SpecBatch == BatchInit /\ [][BatchNext]_vars

\* One POW: serialization passes and bulk loads over its working directory.
Spec == Init /\ [][Next]_vars

\* A POW whose store is changed between its serialization passes.
PassesInit ==
    /\ graph = EmptyStore
    /\ calls = <<>>
    /\ PersistIdle
    /\ BatchIdle
    /\ LoaderPinned
    /\ InitPinned

SpecPasses == PassesInit /\ [][PassesNext]_vars

\* One DataSourceDirLoader over one file system.
LoaderInit ==
    /\ fsys \in FileSystems
    /\ LoaderIdle
    /\ graph = EmptyStore
    /\ calls = <<>>
    /\ BatchIdle
    /\ PersistIdle
    /\ InitPinned

SpecLoader == LoaderInit /\ [][LoaderNext]_vars

\* One call of POW.init.
InitInit ==
    /\ InitIdle
    /\ graph = EmptyStore
    /\ calls = <<>>
    /\ BatchIdle
    /\ PersistIdle
    /\ LoaderPinned

SpecInit == InitInit /\ [][InitNext]_vars

\* One call of POW.clone.
CloneInit ==
    /\ InitIdle
    /\ graph = EmptyStore
    /\ calls = <<>>
    /\ BatchIdle
    /\ PersistIdle
    /\ LoaderPinned

SpecClone == CloneInit /\ [][CloneNext]_vars

\* ================================================================ claims
\* The triples carried by a sequence of addN calls, in call order.
Inserted(cs) == [i \in DOMAIN Flatten(cs) |-> Flatten(cs)[i][1]]

\* C3 (batching correctness): once a scope has exited normally, the addN calls
\* made in it carried exactly the set of triples passed to add(), all of them
\* addressed to the target graph, and the graph holds them, whatever the
\* batchsize.
C3_BatchingCorrectness ==
    (bpc = "closed" /\ ~bexc) =>
        /\ Range(Inserted(calls)) = Range(added)
        /\ \A q \in Range(Flatten(calls)) : q[2] = bw.graph
        /\ Range(added) \subseteq TriplesIn(graph, bw.graph)
        /\ DOMAIN graph \subseteq {bw.graph}

\* A scope of 3 or more triples with batchsize 2 (flushed part-way) has exited
\* normally.
C3_Witness ==
    /\ bpc = "closed"
    /\ ~bexc
    /\ bw.batchsize = 2
    /\ Len(added) >= 3
    /\ Len(calls) >= 2

\* C4 (discard on error): a release due to an error makes no addN call and
\* leaves the store alone, and the triples inserted in a scope are exactly
\* those added in it and not discarded: the triples buffered at an error
\* release are never inserted, not even by a later scope of the same object.
C4_DiscardOnError ==
    /\ [][(bpc = "open" /\ bpc' = "closed" /\ bexc') => (calls' = calls /\ graph' = graph)]_vars
    /\ [](bpc = "closed" => Inserted(calls) = live)
    /\ [](bpc = "open" => Inserted(calls \o <<bw.batch>>) = live)

\* An error release that discarded a non-empty buffer after an earlier flush.
C4_Witness ==
    /\ bpc = "closed"
    /\ bexc
    /\ bw.batch # <<>>
    /\ calls # <<>>

\* C16 (flush at threshold): whenever add has returned, every full batchsize
\* of triples added in the scope has been handed over in an addN call of its
\* own, and the buffer holds fewer than batchsize triples.
C16_FlushAtThreshold ==
    bpc = "open" =>
        /\ Len(bw.batch) < bw.batchsize
        /\ Len(calls) = Len(added) \div bw.batchsize

\* C21 (batches in order): once a scope has exited normally, no addN call of
\* the scope carried more than batchsize triples, the calls taken together in
\* call order carried the added triples in add order, each once, and count is
\* the number of triples inserted.
C21_BatchesInOrder ==
    (bpc = "closed" /\ ~bexc) =>
        /\ \A i \in DOMAIN calls : Len(calls[i]) <= bw.batchsize
        /\ Inserted(calls) = added
        /\ bw.count = Len(Inserted(calls))

\* A scope with batchsize 2 in which one triple was added twice and another
\* once has exited normally after a flush part-way.
C21_Witness ==
    /\ bpc = "closed"
    /\ ~bexc
    /\ bw.batchsize = 2
    /\ Len(added) = 3
    /\ added[1] = added[3]
    /\ added[1] # added[2]
    /\ Len(calls) = 2

\* The index entries (positions) whose identifier is x.
EntriesFor(x) == {i \in DOMAIN disk.index : disk.index[i].words = x}

\* The graphs directory holds, for the store st, one index entry per context,
\* and every index entry names an existing file holding its context's triples.
PassConsistent(st) ==
    /\ disk.hasIndex
    /\ \A x \in DOMAIN st : Cardinality(EntriesFor(x)) = 1
    /\ \A i \in DOMAIN disk.index :
          /\ disk.index[i].words \in DOMAIN st
          /\ exists(disk, disk.index[i].fname)
          /\ disk.files[disk.index[i].fname] = NTSerialize(st[disk.index[i].words])

\* Two distinct contexts of st share a digest.
Colliding(st) == \E x, y \in DOMAIN st : x # y /\ hexdigest(x) = hexdigest(y)

\* A bulk load into a fresh empty store, over the untouched output of the
\* latest pass, has finished.
RoundTripDone ==
    /\ pc = "idle"
    /\ lastOp = "load"
    /\ passStatus # "none"
    /\ tampered = 0
    /\ ld.pre = EmptyStore

\* C1 (round trip): the serialization pass completes, and the bulk load of its
\* output into a fresh empty store raises nothing and leaves the store with the
\* contexts and the triples per context of the store serialized.
C1_RoundTrip ==
    /\ passStatus # "raised"
    /\ RoundTripDone => (err = "none" /\ graph = snap)

\* C2 (atomic load failure): once the bulk load has raised, the store is what
\* it was before the call.
C2_AtomicLoadFailure ==
    (pc = "idle" /\ lastOp = "load" /\ err # "none") => graph = ld.pre

\* A load that raised on a missing or malformed file after addN calls of this
\* load had changed the store.
C2_Witness ==
    /\ pc = "idle"
    /\ lastOp = "load"
    /\ err \in {"IOError", "ParseError"}
    /\ ApplyCalls(ld.pre, calls) # ld.pre
    /\ graph = ld.pre

\* C5 (collision safety): a pass over a store with two contexts of the same
\* digest completes; the two are written to distinct files, the later under a
\* suffixed name, and the index maps each file to its context.
C5_CollisionSafety ==
    (passStatus \in {"ok", "raised"} /\ tampered = 0 /\ Colliding(snap)) =>
        /\ passStatus = "ok"
        /\ PassConsistent(snap)
        /\ \A i, j \in DOMAIN disk.index :
              i # j => disk.index[i].fname # disk.index[j].fname
        /\ \A x, y \in DOMAIN snap : \A i \in EntriesFor(x) : \A j \in EntriesFor(y) :
              (x # y /\ hexdigest(x) = hexdigest(y)) =>
                  (disk.index[i].fname[2] # 0 \/ disk.index[j].fname[2] # 0)

\* C6 (index/file consistency): after a completed pass every context of the
\* store serialized has exactly one index entry, and every index entry names
\* an existing file that holds its context's triples.
C6_IndexFileConsistency ==
    (passStatus = "ok" /\ tampered = 0) => PassConsistent(snap)

\* A completed pass over two contexts with different triples.
C6_Witness ==
    /\ passStatus = "ok"
    /\ tampered = 0
    /\ PassConsistent(snap)
    /\ \E x, y \in DOMAIN snap : x # y /\ snap[x] # snap[y] /\ snap[x] # {}

\* C10 (empty index is a no-op): a bulk load over a working directory without
\* index file reports 0 triples read, raises nothing, makes no addN call and
\* leaves the store as it was.
C10_EmptyIndexNoOp ==
    (pc = "idle" /\ lastOp = "load" /\ ~disk.hasIndex) =>
        /\ ld.reported = 0
        /\ err = "none"
        /\ calls = <<>>
        /\ graph = ld.pre

\* Such a load has run on a store that holds triples.
C10_Witness ==
    /\ pc = "idle"
    /\ lastOp = "load"
    /\ ~disk.hasIndex
    /\ ld.reported = 0
    /\ graph # EmptyStore
    /\ ld.pre = graph

\* A bulk load has ended over an index that was not rewritten while it ran.
LoadEnded ==
    /\ pc = "idle"
    /\ lastOp = "load"
    /\ disk.hasIndex
    /\ ld.first = disk.index

\* Every index line has its separator and names an existing file of
\* well-formed triples.
LoadableIndex ==
    \A i \in DOMAIN disk.index :
        /\ disk.index[i].words # <<>>
        /\ exists(disk, disk.index[i].fname)
        /\ Range(disk.files[disk.index[i].fname]) \subseteq Triples

\* C11 (index line parsing): every line is split at its first space, so an
\* index whose lines all have a separator and name well-formed files is loaded
\* without error, each file's triples into the context of the full remaining
\* identifier, spaces included; and an index with a line without separator
\* makes the load raise rather than skip the line.
C11_IndexLineParsing ==
    LoadEnded =>
        /\ LoadableIndex =>
              /\ err = "none"
              /\ \A i \in DOMAIN disk.index :
                    Range(disk.files[disk.index[i].fname])
                        \subseteq TriplesIn(graph, disk.index[i].words)
        /\ (\E i \in DOMAIN disk.index : disk.index[i].words = <<>>) => err # "none"

\* s is the beginning of t.
IsPrefix(s, t) == Len(s) <= Len(t) /\ SubSeq(t, 1, Len(s)) = s

\* C15 (index snapshot under concurrent rewrite): the entries a bulk load
\* processes are entries of the index as it first read it, in order, and a
\* load that returns has processed all of them, as many as the total it gave
\* to the progress sink, also when the index file is rewritten meanwhile.
C15_IndexSnapshot ==
    /\ IsPrefix(ld.seen, ld.first)
    /\ (pc = "idle" /\ lastOp = "load" /\ err = "none" /\ disk.hasIndex) =>
          /\ ld.seen = ld.first
          /\ Len(ld.seen) = ld.total

\* ----------------------------------------------------------- SpecPasses
\* The files of the graphs directory are those the index names.
OnlyIndexedFiles ==
    DOMAIN disk.files = {disk.index[i].fname : i \in DOMAIN disk.index}

\* C12 (index rewritten in full): whatever changes to the store and passes
\* went before, when a pass has completed the index has one entry, and the
\* graphs directory one file, for each context the store held at that pass,
\* and nothing else: no entry and no file of an earlier pass is left.
C12_IndexRewrittenInFull ==
    passStatus = "ok" =>
        /\ PassConsistent(snap)
        /\ Len(disk.index) = Cardinality(DOMAIN snap)
        /\ OnlyIndexedFiles

\* A pass has completed after removing the file an earlier pass wrote for a
\* context the store no longer holds.
C12_Witness ==
    /\ passStatus = "ok"
    /\ muts > 0
    /\ \E e \in Range(rlog) :
          /\ e.call = "rmtree"
          /\ \E f \in e.paths : f[1] # 0 /\ ~exists(disk, f)

\* C13 (idempotent serialize): two passes over the same store both complete
\* and leave the same graphs directory (file names, file contents and index),
\* in whatever order each met the contexts, colliding contexts included.
C13_IdempotentSerialize ==
    (pc = "idle" /\ passStatus \in {"ok", "raised"} /\ prev.status \in {"ok", "raised"}) =>
        /\ passStatus = "ok"
        /\ prev.status = "ok"
        /\ disk = prev.disk

\* C14 (no half-written file): when a write has failed part-way through a
\* pass, every file in the graphs directory holds all the triples of the
\* context it is named after.
C14_NoHalfWrittenFile ==
    passStatus = "failed" =>
        \A f \in DOMAIN disk.files : \E x \in DOMAIN snap :
            /\ f = BaseName(hexdigest(x))
            /\ disk.files[f] = NTSerialize(snap[x])

\* The positions of rlog at which `what` was called.
CallsOf(what) == {i \in DOMAIN rlog : rlog[i].call \in what}

\* C19 (uncommitted changes are not silently overwritten): a pass that began
\* with the repository dirty called reset before it removed the graphs
\* directory or wrote any file, and a pass that began with it clean did not
\* call reset.
C19_ResetBeforeOverwrite ==
    passStatus # "none" =>
        /\ wasDirty => CallsOf({"reset"}) # {}
        /\ ~wasDirty => CallsOf({"reset"}) = {}
        /\ \A i \in CallsOf({"reset"}) :
              \A j \in CallsOf({"remove", "rmtree", "mkdir", "write", "index"}) : i < j

\* A pass that began dirty, over a graphs directory that held a context file,
\* has written a context file and completed.
C19_Witness ==
    /\ passStatus = "ok"
    /\ wasDirty
    /\ CallsOf({"reset"}) = {1}
    /\ CallsOf({"write"}) # {}
    /\ \E e \in Range(rlog) : e.call = "rmtree" /\ \E f \in e.paths : f[1] # 0

\* C20 (commit ordering): repo.commit is called only by commit, as the last
\* call of the run, after every context's file and then the index were
\* written and all of them staged by repo.add; a run whose pass has not
\* completed, or has raised, has not called it.
C20_CommitOrdering ==
    /\ passStatus \in {"running", "raised", "failed"} => CallsOf({"commit"}) = {}
    /\ op # "commit" => CallsOf({"commit"}) = {}
    /\ \A i \in CallsOf({"commit"}) :
          /\ i = Len(rlog)
          /\ i > 2
          /\ rlog[i - 1].call = "add"
          /\ rlog[i - 2].call = "index"
          /\ DOMAIN disk.files \cup {IndexFile} \subseteq rlog[i - 1].paths
          /\ PassConsistent(snap)
          /\ \A x \in DOMAIN snap : \E j \in 1..(i - 3) : \E k \in EntriesFor(x) :
                rlog[j] = Did("write", {disk.index[k].fname})

\* A commit over a store of two contexts has called repo.commit.
C20_Witness ==
    /\ passStatus = "ok"
    /\ op = "commit"
    /\ CallsOf({"commit"}) # {}
    /\ Cardinality(DOMAIN snap) >= 2
    /\ ~repo.dirty

\* ----------------------------------------------------------- SpecLoader
\* path is base itself or lies below it, component by component.
Under(path, base) ==
    Len(base) <= Len(path) /\ SubSeq(path, 1, Len(base)) = base

\* C7 (sandbox containment): every path __call__ returns is the canonical
\* base directory or lies below it; a path that only shares the base's string
\* prefix is never returned.
C7_SandboxContainment ==
    lres.kind = "returned" => Under(lres.path, loader.base)

\* The relative loader result "../escape".
DotDotEscape == [abs |-> FALSE, comps |-> <<DotDot, Escape>>]

\* The loader result is relative and names an existing directory under the
\* base directory.
NamesDirUnderBase ==
    /\ ~lreq.abs
    /\ lreq.comps # <<>>
    /\ isdir(fsys, realpath(fsys, loader.base \o lreq.comps))
    /\ Under(realpath(fsys, loader.base \o lreq.comps), loader.base)

\* C8 ("../escape" is rejected): with any base directory a loader result of
\* "../escape" fails with the sandbox-escape LoadFailed, and a relative result
\* naming an existing directory under the base returns its canonical path.
C8_EscapeRejected ==
    (loader.set /\ lres.kind # "none") =>
        /\ lreq = DotDotEscape => lres = LoadFailed("outside")
        /\ NamesDirUnderBase =>
              lres = Returned(realpath(fsys, loader.base \o lreq.comps))

\* The outcome of __call__ when the checks are made in the order empty
\* result, outside the base directory, nonexistent, not a directory, with
\* "outside" meaning that the real path is neither the base nor below it.
OutcomeInOrder ==
    IF IsEmptyString(lreq) THEN LoadFailed("empty")
    ELSE LET rpath == realpath(fsys, IF lreq.abs THEN lreq.comps
                                     ELSE loader.base \o lreq.comps)
         IN  IF ~Under(rpath, loader.base) THEN LoadFailed("outside")
             ELSE IF ~path_exists(fsys, rpath) THEN LoadFailed("nonexistent")
             ELSE IF ~isdir(fsys, rpath) THEN LoadFailed("notdir")
             ELSE Returned(rpath)

\* C18 (resolution outcome and check order): __call__ returns the real path
\* only when the loader result is non-empty, resolves inside the base
\* directory, exists and is a directory, and otherwise raises LoadFailed for
\* the first check that fails, in the order empty, escape, nonexistent, not a
\* directory.
C18_ResolutionOrder ==
    (loader.set /\ lres.kind # "none") => lres = OutcomeInOrder

\* ------------------------------------------------------------- SpecInit
\* What this init call created and is still on disk.
Remaining ==
    {a \in pow.created :
        \/ a = "powdir" /\ pow.powdir
        \/ a = "config" /\ pow.cfg.exists
        \/ a = "storeIn" /\ pow.storeIn
        \/ a = "storeOut" /\ pow.storeOut
        \/ a = "repo" /\ pow.repoInit}

\* No step of init was begun twice.
NothingRetried == \A i, j \in DOMAIN ilog : ilog[i] = ilog[j] => i = j

\* C9 (init rollback): when a step of init has raised, the error has been
\* raised again to the caller, the working directory does not exist, nothing
\* this call created is left on disk, and no step was retried.
C9_InitRollback ==
    ipc = "raised" =>
        /\ ierr = pow.stepErr
        /\ ~pow.powdir
        /\ Remaining = {}
        /\ NothingRetried

\* C9 as amended: when a step of init has raised an Exception and the removal
\* of the working directory has not itself failed, that error has been raised
\* again, the working directory and all under it are gone, the only things
\* this call created that are left are a config file or a store outside the
\* working directory, and no step was retried.
C9_InitRollbackWorkdir ==
    (ipc = "raised" /\ pow.stepErr = "Exception" /\ ~pow.rmFailed) =>
        /\ ierr = "Exception"
        /\ ~pow.powdir
        /\ ~pow.storeIn
        /\ ~pow.repoInit
        /\ pow.cfg.exists => pow.cfgOutside
        /\ Remaining \subseteq
              (IF pow.cfgOutside THEN {"config"} ELSE {}) \cup {"storeOut"}
        /\ NothingRetried

\* The store step raised an Exception after this call had created the working
\* directory and the config file in it, and the directory has been removed.
C9_Witness ==
    /\ ipc = "raised"
    /\ pow.stepErr = "Exception"
    /\ ~pow.rmFailed
    /\ ilog = <<"ensure", "config", "store">>
    /\ {"powdir", "config"} \subseteq pow.created
    /\ ~pow.cfgOutside
    /\ ~pow.powdir

\* C17 (existing config file is kept): when init was called with
\* update_existing_config false on a working directory that had a config file,
\* and has returned, the config file, with the store location in it, is what
\* it was.
C17_ConfigUnchanged ==
    (ipc = "returned" /\ ~pow.update /\ cfg0.exists) => pow.cfg = cfg0

\* Such an init has returned where the config file names another store
\* location than store_name gives, so that an update would have changed it.
C17_Witness ==
    /\ ipc = "returned"
    /\ ~pow.update
    /\ cfg0.exists
    /\ cfg0.store_conf # StoreConf(pow)
    /\ pow.cfg = cfg0
    /\ ilog = InitSteps

\* ------------------------------------------------------------- SpecClone
\* The working directory is gone, with everything that was in it.
PowdirGone ==
    /\ ~pow.powdir
    /\ ~pow.storeIn
    /\ ~pow.repoInit
    /\ pow.cfg.exists => pow.cfgOutside

\* clone does not get past makedirs on a working directory that was there.
StopsAtExisting ==
    (\/ ipc \in {"fetch", "config", "store", "load", "returned"}
     \/ ipc = "raised" /\ ilog # <<"makedirs">>) => "powdir" \in pow.created

\* C22 (clone rollback): after clone has raised, whatever the reason, the
\* working directory does not exist, also when it was there before the call:
\* a clone on an existing working directory fails at makedirs and removes the
\* directory with all that was in it.
C22_CloneRollback ==
    /\ StopsAtExisting
    /\ ipc = "raised" => PowdirGone

\* C22 as amended: the same, for every clone that raised without the removal
\* of the working directory itself failing.
C22_CloneRollbackRemoved ==
    /\ StopsAtExisting
    /\ (ipc = "raised" /\ ~pow.rmFailed) => PowdirGone

\* clone was called on a working directory that was there, with a config file
\* and a store in it; it raised at makedirs and the directory is gone.
C22_Witness ==
    /\ ipc = "raised"
    /\ ilog = <<"makedirs">>
    /\ "powdir" \notin pow.created
    /\ cfg0.exists
    /\ ~pow.cfgOutside
    /\ ~pow.rmFailed
    /\ PowdirGone
====
